---- MODULE Spec2Model ----
(***************************************************************************)
(* A model of image_demo.py, the YOLO-World command line demo: prompt      *)
(* loading, image job resolution, score thresholding, top-k truncation,    *)
(* output writing and the driver loop that orders them.                    *)
(*                                                                         *)
(* Strings are sequences of characters, so that split, strip, endswith,    *)
(* join and basename are computed character by character.  A character is  *)
(* the one-character string holding it; a character a TLA+ string cannot   *)
(* hold is written as its Python escape ("\\x0b" is the vertical tab,       *)
(* "\\u3000" the ideographic space).                                        *)
(* Confidence scores and the threshold are points of a totally ordered     *)
(* grid 0..MaxScore: the code only compares them.                          *)
(***************************************************************************)
EXTENDS Integers, Sequences, FiniteSets, TLC

VARIABLES
    pc,        \* position of the script
    args,      \* the parsed command line (parse_args)
    runner,    \* how far the runner/model has been set up
    texts,     \* the prompt list, NotLoaded before "load text"
    outdir,    \* whether output_dir has been resolved (lines 131-133)
    env,       \* the world the script reads: file system answers and model outputs
    images,    \* the job list
    idx,       \* number of the image being processed (1-based), 0 before the loop
    progress,  \* ProgressBar: [total, completed]
    raw,       \* scores of the instances test_step returned for the current image
    pred,      \* pred_instances of the current image
    dets,      \* sv.Detections of the current image
    disk,      \* files of the output directory: path -> content
    writes,    \* paths cv2.imwrite wrote, in order
    log,       \* stages executed so far: <<job, stage>>
    err        \* where an uncaught exception was raised, NoErr otherwise

vars == <<pc, args, runner, texts, outdir, env, images, idx, progress,
          raw, pred, dets, disk, writes, log, err>>

----------------------------------------------------------------------------
(* Bounds of the model *)

\* longest inline text argument
MaxTextLen == 4
\* longest prompt file content
MaxFileLen == 3
\* most entries in the image directory
MaxEntries == 2
\* most raw instances returned by the model for one image
MaxInst == 4
\* highest score / threshold grid point
MaxScore == 4
\* largest --topk
MaxTopk == 3

----------------------------------------------------------------------------
(* Strings *)

Range(s) == {s[i] : i \in 1..Len(s)}

SeqsUpTo(S, n) == UNION {[1..m -> S] : m \in 0..n}

\* str.endswith
EndsWith(s, suf) ==
    /\ Len(suf) <= Len(s)
    /\ SubSeq(s, Len(s) - Len(suf) + 1, Len(s)) = suf

\* str.startswith
StartsWith(s, pre) ==
    /\ Len(pre) <= Len(s)
    /\ SubSeq(s, 1, Len(pre)) = pre

\* characters str.strip() removes: those for which str.isspace() holds
Whitespace ==
    { "\t", "\n", "\\x0b", "\f", "\r", "\\x1c", "\\x1d", "\\x1e", "\\x1f", " ",
      "\\x85", "\\xa0", "\\u1680", "\\u2000", "\\u2001", "\\u2002", "\\u2003",
      "\\u2004", "\\u2005", "\\u2006", "\\u2007", "\\u2008", "\\u2009", "\\u200a",
      "\\u2028", "\\u2029", "\\u202f", "\\u205f", "\\u3000" }

RECURSIVE LStrip(_, _)
LStrip(s, chars) ==
    IF s # <<>> /\ Head(s) \in chars THEN LStrip(Tail(s), chars) ELSE s

RECURSIVE RStrip(_, _)
RStrip(s, chars) ==
    IF s # <<>> /\ s[Len(s)] \in chars
    THEN RStrip(SubSeq(s, 1, Len(s) - 1), chars)
    ELSE s

\* str.strip()
Strip(s) == RStrip(LStrip(s, Whitespace), Whitespace)

\* str.split(sep) for a one-character separator
RECURSIVE Split(_, _)
Split(s, sep) ==
    IF sep \notin Range(s) THEN <<s>>
    ELSE LET i == CHOOSE j \in 1..Len(s) :
                     s[j] = sep /\ \A k \in 1..(j - 1) : s[k] # sep
         IN <<SubSeq(s, 1, i - 1)>> \o Split(SubSeq(s, i + 1, Len(s)), sep)

\* text-mode open(): universal newlines turn "\r\n" and "\r" into "\n"
RECURSIVE Universal(_)
Universal(s) ==
    IF s = <<>> THEN <<>>
    ELSE IF Head(s) = "\r"
         THEN IF Len(s) >= 2 /\ s[2] = "\n"
              THEN <<"\n">> \o Universal(SubSeq(s, 3, Len(s)))
              ELSE <<"\n">> \o Universal(Tail(s))
         ELSE <<Head(s)>> \o Universal(Tail(s))

\* f.readlines(): lines with their terminator kept
RECURSIVE ReadLines(_)
ReadLines(s) ==
    IF s = <<>> THEN <<>>
    ELSE IF "\n" \notin Range(s) THEN <<s>>
    ELSE LET i == CHOOSE j \in 1..Len(s) :
                     s[j] = "\n" /\ \A k \in 1..(j - 1) : s[k] # "\n"
         IN <<SubSeq(s, 1, i)>> \o ReadLines(SubSeq(s, i + 1, Len(s)))

----------------------------------------------------------------------------
(* Paths *)

\* osp.join(a, b)
Join(a, b) ==
    IF StartsWith(b, <<"/">>) THEN b
    ELSE IF a = <<>> \/ EndsWith(a, <<"/">>) THEN a \o b
    ELSE a \o <<"/">> \o b

\* osp.basename(p): what follows the last "/"
Basename(p) ==
    LET slashes == {j \in 1..Len(p) : p[j] = "/"}
    IN IF slashes = {} THEN p
       ELSE LET i == CHOOSE j \in slashes : \A k \in slashes : k <= j
            IN SubSeq(p, i + 1, Len(p))

----------------------------------------------------------------------------
(* Prompt loader, lines 123-129 *)

\* texts before line 127/129 ran; a loaded prompt list is never empty
NotLoaded == <<>>

\* a file that does or does not exist
NoFile == [exists |-> FALSE, content |-> <<>>]
File(content) == [exists |-> TRUE, content |-> content]

\* the trailing group [' ']
Sentinel == <<" ">>

TxtSuffix == <<".", "t", "x", "t">>

\* line 124: args.text.endswith('.txt')
IsTextFile(text) == EndsWith(text, TxtSuffix)

\* a variant that forgets the trailing group
LoadTextInlineNoSentinel(text) ==
    LET tokens == Split(text, ",")
    IN [i \in 1..Len(tokens) |-> <<Strip(tokens[i])>>]

\* line 129: [[t.strip()] for t in args.text.split(',')] + [[' ']]
LoadTextInline(text) ==
    LET tokens == Split(text, ",")
    IN [i \in 1..Len(tokens) |-> <<Strip(tokens[i])>>] \o <<<<Sentinel>>>>

\* lines 125-127: [[t.rstrip('\r\n')] for t in lines] + [[' ']]
LoadTextFile(content) ==
    LET lines == ReadLines(Universal(content))
    IN [i \in 1..Len(lines) |-> <<RStrip(lines[i], {"\r", "\n"})>>]
          \o <<<<Sentinel>>>>

----------------------------------------------------------------------------
(* Image job list, lines 141-147 *)

\* what os.listdir answers: the names, or an error
NotDir == [ok |-> FALSE, names |-> <<>>]
Dir(names) == [ok |-> TRUE, names |-> names]

\* images before lines 141-147 ran
NotResolved == <<>>

PngSuffix == <<".", "p", "n", "g">>
JpgSuffix == <<".", "j", "p", "g">>

\* a variant that only knows one extension
IsImageNamePngOnly(img) == EndsWith(img, PngSuffix)

\* line 144: img.endswith('.png') or img.endswith('.jpg')
IsImageName(img) == EndsWith(img, PngSuffix) \/ EndsWith(img, JpgSuffix)

\* a variant that filters the single file too
ResolveImagesFilterAll(image, isfile, listing) ==
    IF ~isfile
    THEN LET kept == SelectSeq(listing, IsImageName)
         IN [i \in 1..Len(kept) |-> Join(image, kept[i])]
    ELSE SelectSeq(<<image>>, IsImageName)

\* lines 141-147
ResolveImages(image, isfile, listing) ==
    IF ~isfile
    THEN LET kept == SelectSeq(listing, IsImageName)
         IN [i \in 1..Len(kept) |-> Join(image, kept[i])]
    ELSE <<image>>

----------------------------------------------------------------------------
(* Postprocessing, lines 75-84.  An instance is [id, score]: id is its     *)
(* position in the model's raw output and stands for its box and label.    *)

Instances(scores) == [i \in 1..Len(scores) |-> [id |-> i, score |-> scores[i]]]

\* a variant that keeps ties at the threshold
ThresholdFilterGeq(p, score_thr) ==
    SelectSeq(p, LAMBDA r : r.score >= score_thr)

\* lines 75-76: pred_instances[pred_instances.scores.float() > score_thr]
ThresholdFilter(p, score_thr) ==
    SelectSeq(p, LAMBDA r : r.score > score_thr)

\* a variant that is off by one
NeedsTopkOffByOne(p, max_dets) == Len(p) > max_dets + 1

\* line 77: len(pred_instances.scores) > max_dets
NeedsTopk(p, max_dets) == Len(p) > max_dets

Injective(f) == \A i, j \in DOMAIN f : i # j => f[i] # f[j]

\* a variant that takes the first k positions
TopkIndicesFirst(p, k) == {[i \in 1..k |-> i]}

\* line 78: scores.topk(max_dets)[1], the positions of the k largest scores,
\* largest first; the order among equal scores is the library's choice
TopkIndices(p, k) ==
    {ind \in [1..k -> 1..Len(p)] :
        /\ Injective(ind)
        /\ \A i \in 1..(k - 1) : p[ind[i]].score >= p[ind[i + 1]].score
        /\ \A j \in 1..Len(p) : \A i \in 1..k :
              j \notin Range(ind) => p[j].score <= p[ind[i]].score}

\* line 79: pred_instances[indices]
TakeIndices(p, ind) == [i \in 1..Len(ind) |-> p[ind[i]]]

----------------------------------------------------------------------------
(* Output, lines 91-95 *)

\* a variant that keeps the whole source path
OutPathFull(output_dir, image_path) == Join(output_dir, image_path)

\* line 95: osp.join(output_dir, osp.basename(image_path))
OutPath(output_dir, image_path) == Join(output_dir, Basename(image_path))

\* the annotated image of a source
Annotated(image_path) == [src |-> image_path]

\* a file that was there before the run
OldContent == [src |-> <<>>]

\* the disk is a set of [path, content], one per path
Paths(d) == {f.path : f \in d}
ContentAt(d, path) == (CHOOSE f \in d : f.path = path).content

\* cv2.imwrite: create or overwrite
WriteFile(d, path, content) ==
    {f \in d : f.path # path} \cup {[path |-> path, content |-> content]}

----------------------------------------------------------------------------
(* The script, lines 105-160 *)

NoErr == [stage |-> "none", job |-> 0]

\* a variant that loads the checkpoint before the prompts and the output directory
StartupOrderModelFirst ==
    <<"load_config", "build_runner", "load_model", "load_text", "output_dir",
      "resolve_images", "progress", "loop">>

\* the order of the statements of __main__ before the loop
StartupOrder ==
    <<"load_config", "build_runner", "load_text", "output_dir", "load_model",
      "resolve_images", "progress", "loop">>

\* the statement that follows statement p
After(p) ==
    LET i == CHOOSE j \in 1..Len(StartupOrder) : StartupOrder[j] = p
    IN StartupOrder[i + 1]

\* a variant that swallows the exception and goes on with the next image
AfterErrorContinue == "update"

\* no try/except anywhere: an exception ends the process
AfterError == "Aborted"

Raise(stage) ==
    /\ pc' = AfterError
    /\ err' = [stage |-> stage, job |-> idx]

\* a variant that steps over an image
NextIndexSkip(i) == i + 2

\* line 150: for image_path in images
NextIndex(i) == i + 1

image_path == images[idx]

Event(stage) == [job |-> idx, path |-> image_path, stage |-> stage]

\* lines 109-116: Config.fromfile, merge_from_dict, work_dir, load_from
LoadConfig ==
    /\ pc = "load_config"
    /\ \/ pc' = After("load_config") /\ err' = err
       \/ Raise("load_config")
    /\ UNCHANGED <<args, runner, texts, outdir, env, images, idx, progress,
                   pred, dets, disk, writes, log, raw>>

\* lines 118-121: Runner.from_cfg / RUNNERS.build construct the runner and its model
BuildRunner ==
    /\ pc = "build_runner"
    /\ \/ pc' = After("build_runner") /\ runner' = "built" /\ err' = err
       \/ Raise("build_runner") /\ runner' = runner
    /\ UNCHANGED <<args, texts, outdir, env, images, idx, progress,
                   pred, dets, disk, writes, log, raw>>

\* lines 124-127: the prompts come from a .txt file
LoadTextFromFile ==
    /\ pc = "load_text"
    /\ IsTextFile(args.text)
    /\ \/ /\ env.textfile.exists
          /\ texts' = LoadTextFile(env.textfile.content)
          /\ pc' = After("load_text")
          /\ err' = err
       \/ /\ ~env.textfile.exists
          /\ Raise("load_text")
          /\ texts' = texts
    /\ UNCHANGED <<args, runner, outdir, env, images, idx, progress,
                   pred, dets, disk, writes, log, raw>>

\* lines 128-129: the prompts come from the argument itself
LoadTextFromArg ==
    /\ pc = "load_text"
    /\ ~IsTextFile(args.text)
    /\ texts' = LoadTextInline(args.text)
    /\ pc' = After("load_text")
    /\ UNCHANGED <<args, runner, outdir, env, images, idx, progress,
                   pred, dets, disk, writes, log, err, raw>>

\* lines 131-133: os.mkdir(output_dir) unless it exists
MakeOutputDir ==
    /\ pc = "output_dir"
    /\ \/ /\ env.outexists
          /\ pc' = After("output_dir")
          /\ UNCHANGED <<env, err>>
          /\ outdir' = "resolved"
       \/ /\ ~env.outexists
          /\ pc' = After("output_dir")
          /\ env' = [env EXCEPT !.outexists = TRUE]
          /\ outdir' = "resolved"
          /\ err' = err
       \/ /\ ~env.outexists
          /\ Raise("output_dir")
          /\ UNCHANGED <<env, outdir>>
    /\ UNCHANGED <<args, runner, texts, images, idx, progress,
                   pred, dets, disk, writes, log, raw>>

\* lines 135-139: before_run hooks, load_or_resume (the checkpoint),
\* the test pipeline, model.eval()
LoadModel ==
    /\ pc = "load_model"
    /\ \/ pc' = After("load_model") /\ runner' = "ready" /\ err' = err
       \/ Raise("load_model") /\ runner' = runner
    /\ UNCHANGED <<args, texts, outdir, env, images, idx, progress,
                   pred, dets, disk, writes, log, raw>>

\* lines 141-147: one file, or the image entries of a directory
ResolveImageList ==
    /\ pc = "resolve_images"
    /\ \/ /\ env.isfile \/ env.listing.ok
          /\ images' = ResolveImages(args.image, env.isfile, env.listing.names)
          /\ pc' = After("resolve_images")
          /\ err' = err
       \/ /\ ~env.isfile /\ ~env.listing.ok
          /\ Raise("resolve_images")
          /\ images' = images
    /\ UNCHANGED <<args, runner, texts, outdir, env, idx, progress,
                   pred, dets, disk, writes, log, raw>>

\* line 149: ProgressBar(len(images))
StartProgress ==
    /\ pc = "progress"
    /\ progress' = [total |-> Len(images), completed |-> 0]
    /\ pc' = After("progress")
    /\ UNCHANGED <<args, runner, texts, outdir, env, images, idx,
                   pred, dets, disk, writes, log, err, raw>>

\* line 150: the next image, or the end of the script
LoopNext ==
    /\ pc = "loop"
    /\ IF NextIndex(idx) <= Len(images)
       THEN idx' = NextIndex(idx) /\ pc' = "pipeline"
       ELSE idx' = idx /\ pc' = "Done"
    /\ UNCHANGED <<args, runner, texts, outdir, env, images, progress,
                   pred, dets, disk, writes, log, err, raw>>

\* lines 67-70: the test pipeline loads and preprocesses the image
Pipeline ==
    /\ pc = "pipeline"
    /\ \/ pc' = "test_step" /\ log' = Append(log, Event("preprocess")) /\ err' = err
       \/ Raise("pipeline") /\ log' = log
    /\ UNCHANGED <<args, runner, texts, outdir, env, images, idx, progress,
                   pred, dets, disk, writes, raw>>

\* lines 72-74: runner.model.test_step(data_batch)[0].pred_instances
TestStep ==
    /\ pc = "test_step"
    /\ \/ \E scores \in env.outputs :
             /\ raw' = scores
             /\ pred' = Instances(scores)
             /\ pc' = "filter"
             /\ log' = Append(log, Event("infer"))
             /\ err' = err
       \/ Raise("test_step") /\ UNCHANGED <<raw, pred, log>>
    /\ UNCHANGED <<args, runner, texts, outdir, env, images, idx, progress,
                   dets, disk, writes>>

\* lines 75-76: the confidence threshold
Filter ==
    /\ pc = "filter"
    /\ pred' = ThresholdFilter(pred, args.threshold)
    /\ pc' = "topk"
    /\ UNCHANGED <<args, runner, texts, outdir, env, images, idx, progress,
                   dets, disk, writes, log, err, raw>>

\* lines 77-79: keep the max_dets best when there are more
Topk ==
    /\ pc = "topk"
    /\ \/ /\ NeedsTopk(pred, args.topk)
          /\ args.topk >= 0
          /\ \E ind \in TopkIndices(pred, args.topk) :
                pred' = TakeIndices(pred, ind)
          /\ pc' = "detections"
          /\ err' = err
       \/ /\ NeedsTopk(pred, args.topk)
          /\ args.topk < 0
          /\ Raise("topk")
          /\ pred' = pred
       \/ /\ ~NeedsTopk(pred, args.topk)
          /\ pc' = "detections"
          /\ UNCHANGED <<pred, err>>
    /\ UNCHANGED <<args, runner, texts, outdir, env, images, idx, progress,
                   dets, disk, writes, log, raw>>

\* lines 81-89: sv.Detections and the labels
ToDetections ==
    /\ pc = "detections"
    /\ dets' = pred
    /\ pc' = "write"
    /\ log' = Append(log, Event("postprocess"))
    /\ UNCHANGED <<args, runner, texts, outdir, env, images, idx, progress,
                   pred, disk, writes, err, raw>>

\* lines 91-95: imread, annotate, imwrite.  cv2.imwrite returns False when it
\* cannot open the file (output_dir is a regular file, was removed or is not
\* writable); line 95 drops the result and the script goes on
WriteImage ==
    /\ pc = "write"
    /\ \/ LET path == OutPath(args.output_dir, image_path)
          IN /\ disk' = WriteFile(disk, path, Annotated(image_path))
             /\ writes' = Append(writes, path)
             /\ log' = Append(log, Event("write"))
             /\ pc' = "show"
             /\ err' = err
       \/ /\ log' = Append(log, Event("write"))
          /\ pc' = "show"
          /\ UNCHANGED <<disk, writes, err>>
       \/ Raise("write") /\ UNCHANGED <<disk, writes, log>>
    /\ UNCHANGED <<args, runner, texts, outdir, env, images, idx, progress,
                   pred, dets, raw>>

\* lines 97-102: cv2.imshow(image) is called without a window name and raises
ShowImage ==
    /\ pc = "show"
    /\ \/ ~args.show /\ pc' = "update" /\ err' = err
       \/ args.show /\ Raise("show")
    /\ UNCHANGED <<args, runner, texts, outdir, env, images, idx, progress,
                   pred, dets, disk, writes, log, raw>>

\* line 160: progress_bar.update()
UpdateProgress ==
    /\ pc = "update"
    /\ progress' = [progress EXCEPT !.completed = @ + 1]
    /\ log' = Append(log, Event("update"))
    /\ pc' = "loop"
    /\ UNCHANGED <<args, runner, texts, outdir, env, images, idx,
                   pred, dets, disk, writes, err, raw>>

----------------------------------------------------------------------------
(* Inputs *)

\* characters of an inline text argument; the form feed stands for the
\* whitespace characters other than the blank
TextChars == {"a", ",", " ", "\f", ".", "t", "x"}
AllTexts == SeqsUpTo(TextChars, MaxTextLen)

\* characters of a prompt file
FileChars == {"a", "\n", "\r"}
AllFileContents == SeqsUpTo(FileChars, MaxFileLen)

\* names a directory may hold
NamePool ==
    { <<"a", ".", "p", "n", "g">>,
      <<"b", ".", "j", "p", "g">>,
      <<"c", ".", "P", "N", "G">>,
      <<"d", ".", "t", "x", "t">>,
      <<"e", ".", "j", "p", "e", "g">>,
      <<"p", "n", "g">>,
      <<".", "j", "p", "g">> }

\* os.listdir: distinct names, in any order
Listings(pool) == {l \in SeqsUpTo(pool, MaxEntries) : Injective(l)}

\* image arguments
ImageArgs ==
    { <<"d">>, <<"d", "/">>, <<"d", "/", "a", ".", "p", "n", "g">>,
      <<"d", "/", "d", ".", "t", "x", "t">>, <<"f">> }

\* what the file system may answer for an image argument: a file, a
\* directory with a listing, or neither
ImageWorlds(image, pool) ==
    (IF image # <<>> /\ ~EndsWith(image, <<"/">>)
     THEN {[isfile |-> TRUE, listing |-> NotDir]} ELSE {})
    \cup {[isfile |-> FALSE, listing |-> l] :
             l \in {Dir(names) : names \in Listings(pool)} \cup {NotDir}}

AllScores == SeqsUpTo(0..MaxScore, MaxInst)

OutDirArg == <<"o">>

\* the driver runs with a handful of representative inputs
DriverTexts == { <<"a", ",", " ", "x">>, <<"p", ".", "t", "x", "t">> }
DriverFiles == { <<"a", "\n", "x">> }
DriverNames ==
    { <<"a", ".", "p", "n", "g">>, <<"b", ".", "j", "p", "g">>,
      <<"d", ".", "t", "x", "t">> }
DriverImages == { <<"d">>, <<"d", "/", "a", ".", "p", "n", "g">> }
DriverOutputs == { <<>>, <<2, 1>>, <<1, 3, 2>> }
DriverTopk == {-1, 1}
DriverThreshold == {1}

MkArgs(text, image, topk, threshold, show) ==
    [text |-> text, image |-> image, topk |-> topk, threshold |-> threshold,
     show |-> show, output_dir |-> OutDirArg]

MkEnv(world, textfile, outexists, old, outputs) ==
    [isfile |-> world.isfile, listing |-> world.listing, textfile |-> textfile,
     outexists |-> outexists, old |-> old, outputs |-> outputs]

TextFiles(text, files) ==
    IF IsTextFile(text) THEN {File(c) : c \in files} \cup {NoFile} ELSE {NoFile}

\* what the output directory holds before the run
OldDisks(outexists) ==
    IF outexists
    THEN { {},
           { [path |-> Join(OutDirArg, <<"a", ".", "p", "n", "g">>),
              content |-> OldContent] } }
    ELSE { {} }

NoProgress == [total |-> 0, completed |-> 0]

----------------------------------------------------------------------------
(* The whole script *)

Init ==
    /\ pc = "load_config"
    /\ \E text \in DriverTexts, image \in DriverImages, topk \in DriverTopk,
          threshold \in DriverThreshold, show \in BOOLEAN, outexists \in BOOLEAN :
          /\ args = MkArgs(text, image, topk, threshold, show)
          /\ \E world \in ImageWorlds(image, DriverNames),
                textfile \in TextFiles(text, DriverFiles) :
                \E d \in OldDisks(outexists) :
                   /\ disk = d
                   /\ env = MkEnv(world, textfile, outexists, Paths(d),
                                  DriverOutputs)
    /\ runner = "none"
    /\ texts = NotLoaded
    /\ outdir = "unresolved"
    /\ images = NotResolved
    /\ idx = 0
    /\ progress = NoProgress
    /\ raw = <<>>
    /\ pred = <<>>
    /\ dets = <<>>
    /\ writes = <<>>
    /\ log = <<>>
    /\ err = NoErr

Next ==
    \/ LoadConfig
    \/ BuildRunner
    \/ LoadTextFromFile
    \/ LoadTextFromArg
    \/ MakeOutputDir
    \/ LoadModel
    \/ ResolveImageList
    \/ StartProgress
    \/ LoopNext
    \/ Pipeline
    \/ TestStep
    \/ Filter
    \/ Topk
    \/ ToDetections
    \/ WriteImage
    \/ ShowImage
    \/ UpdateProgress

Spec == Init /\ [][Next]_vars

----------------------------------------------------------------------------
(* The prompt loader alone, over every text argument up to MaxTextLen *)

InitPrompt ==
    /\ pc = "load_text"
    /\ \E text \in AllTexts :
          /\ args = MkArgs(text, <<"d">>, 1, 1, FALSE)
          /\ \E textfile \in TextFiles(text, AllFileContents) :
                env = MkEnv([isfile |-> FALSE, listing |-> Dir(<<>>)], textfile,
                            TRUE, {}, {<<>>})
    /\ runner = "built"
    /\ texts = NotLoaded
    /\ outdir = "unresolved"
    /\ images = NotResolved
    /\ idx = 0
    /\ progress = NoProgress
    /\ raw = <<>>
    /\ pred = <<>>
    /\ dets = <<>>
    /\ disk = {}
    /\ writes = <<>>
    /\ log = <<>>
    /\ err = NoErr

NextPrompt == LoadTextFromFile \/ LoadTextFromArg

SpecPrompt == InitPrompt /\ [][NextPrompt]_vars

----------------------------------------------------------------------------
(* The job list alone, over every image argument and directory listing *)

InitJobs ==
    /\ pc = "resolve_images"
    /\ \E image \in ImageArgs :
          /\ args = MkArgs(<<"a">>, image, 1, 1, FALSE)
          /\ \E world \in ImageWorlds(image, NamePool) :
                env = MkEnv(world, NoFile, TRUE, {}, {<<>>})
    /\ runner = "ready"
    /\ texts = LoadTextInline(<<"a">>)
    /\ outdir = "resolved"
    /\ images = NotResolved
    /\ idx = 0
    /\ progress = NoProgress
    /\ raw = <<>>
    /\ pred = <<>>
    /\ dets = <<>>
    /\ disk = {}
    /\ writes = <<>>
    /\ log = <<>>
    /\ err = NoErr

NextJobs == ResolveImageList

SpecJobs == InitJobs /\ [][NextJobs]_vars

----------------------------------------------------------------------------
(* The postprocessing alone, over every raw output, threshold and top-k *)

PostImage == <<"d", "/", "a", ".", "p", "n", "g">>

InitPost ==
    /\ pc = "filter"
    /\ \E scores \in AllScores, topk \in -1..MaxTopk, threshold \in 0..MaxScore :
          /\ args = MkArgs(<<"a">>, PostImage, topk, threshold, FALSE)
          /\ env = MkEnv([isfile |-> TRUE, listing |-> NotDir], NoFile, TRUE,
                         {}, {scores})
          /\ raw = scores
          /\ pred = Instances(scores)
    /\ runner = "ready"
    /\ texts = LoadTextInline(<<"a">>)
    /\ outdir = "resolved"
    /\ images = <<PostImage>>
    /\ idx = 1
    /\ progress = [total |-> 1, completed |-> 0]
    /\ dets = <<>>
    /\ disk = {}
    /\ writes = <<>>
    /\ log = << [job |-> 1, path |-> PostImage, stage |-> "preprocess"],
                [job |-> 1, path |-> PostImage, stage |-> "infer"] >>
    /\ err = NoErr

NextPost == Filter \/ Topk \/ ToDetections

SpecPost == InitPost /\ [][NextPost]_vars

----------------------------------------------------------------------------
(* The whole script, every statement eventually executed: the script is one
   thread and no statement waits for another *)

FairSpec == Spec /\ WF_vars(Next)

----------------------------------------------------------------------------
(* Claims about the postprocessing, checked under SpecPost *)

\* positions of the raw instances that pass the threshold
Survivors == {i \in 1..Len(raw) : raw[i] > args.threshold}

Ids(p) == {p[i].id : i \in 1..Len(p)}

\* C1: whatever the raw instances and the threshold t, no instance left after
\* the filter and no emitted detection has score <= t; exactly the instances
\* with score strictly above t pass the filter, one with score = t is dropped.
C1_ThresholdStrict ==
    /\ pc \in {"topk", "detections", "write"} =>
          \A i \in 1..Len(pred) :
             /\ pred[i].score > args.threshold
             /\ pred[i].score = raw[pred[i].id]
    /\ pc = "topk" =>
          /\ Ids(pred) = Survivors
          /\ \A i \in 1..Len(raw) : raw[i] = args.threshold => i \notin Ids(pred)
    /\ pc = "write" =>
          \A i \in 1..Len(dets) :
             /\ dets[i].score > args.threshold
             /\ dets[i].score = raw[dets[i].id]

\* C1 witness: detections were emitted from an output that held an instance
\* exactly at the threshold and one above it.
C1_Witness ==
    /\ pc = "write"
    /\ dets # <<>>
    /\ \E i, j \in 1..Len(raw) : raw[i] = args.threshold /\ raw[j] > args.threshold

\* C2: for every top-K limit k >= 0, k = 0 included, at most k detections are
\* emitted.
C2_AtMostTopk ==
    (pc = "write" /\ args.topk >= 0) => Len(dets) <= args.topk

\* C2 witness: with k = 0 and instances above the threshold nothing is emitted.
C2_Witness ==
    /\ pc = "write"
    /\ args.topk = 0
    /\ Survivors # {}
    /\ dets = <<>>

\* C3: when more instances pass the threshold than topk allows, exactly topk
\* are kept, each of them passed the threshold, and no dropped survivor has a
\* score strictly higher than a kept one.
C3_TopkHighest ==
    (pc = "write" /\ args.topk >= 0 /\ Cardinality(Survivors) > args.topk) =>
        /\ Len(dets) = args.topk
        /\ Cardinality(Ids(dets)) = args.topk
        /\ Ids(dets) \subseteq Survivors
        /\ \A i \in 1..Len(dets) : dets[i].score = raw[dets[i].id]
        /\ \A j \in Survivors \ Ids(dets) :
              \A i \in 1..Len(dets) : raw[j] <= dets[i].score

\* C3 witness: the scenario threshold 0.5, topk 2, scores [0.9, 0.4, 0.6, 0.95]
\* on the grid (0.4 -> 0, 0.5 -> 1, 0.6 -> 2, 0.9 -> 3, 0.95 -> 4): the two
\* kept are the instances scored 0.95 and 0.9.
C3_Witness ==
    /\ pc = "write"
    /\ args.threshold = 1
    /\ args.topk = 2
    /\ raw = <<3, 0, 2, 4>>
    /\ Ids(dets) = {1, 4}

----------------------------------------------------------------------------
(* Claim about the prompt loader, checked under SpecPrompt *)

Commas == {j \in 1..Len(args.text) : args.text[j] = ","}

\* position of the k-th comma; 0 before the first, Len + 1 after the last
CommaAt(k) ==
    IF k = 0 THEN 0
    ELSE IF k > Cardinality(Commas) THEN Len(args.text) + 1
    ELSE CHOOSE j \in Commas : Cardinality({m \in Commas : m < j}) = k - 1

\* the k-th comma-separated token
Token(k) == SubSeq(args.text, CommaAt(k - 1) + 1, CommaAt(k) - 1)

\* t is tok without its leading and trailing whitespace
IsTrimOf(t, tok) ==
    \E a \in 0..Len(tok) : \E b \in a..Len(tok) :
        /\ t = SubSeq(tok, a + 1, b)
        /\ \A i \in 1..a : tok[i] \in Whitespace
        /\ \A i \in (b + 1)..Len(tok) : tok[i] \in Whitespace
        /\ t # <<>> => (t[1] \notin Whitespace /\ t[Len(t)] \notin Whitespace)

\* C4: for an inline text argument the prompt list has one group per
\* comma-separated token, in order, each the trimmed token, then the sentinel
\* group as last element: its length is the number of tokens plus one.
C4_InlinePrompts ==
    (pc = "output_dir" /\ ~IsTextFile(args.text)) =>
        /\ Len(texts) = Cardinality(Commas) + 2
        /\ texts[Len(texts)] = << <<" ">> >>
        /\ \A k \in 1..(Len(texts) - 1) :
              /\ Len(texts[k]) = 1
              /\ IsTrimOf(texts[k][1], Token(k))

\* C4 witness: "a, x" (the shape of "cat,dog", with a blank to trim) gives
\* [["a"], ["x"], [" "]].
C4_Witness ==
    /\ pc = "output_dir"
    /\ args.text = <<"a", ",", " ", "x">>
    /\ texts = << << <<"a">> >>, << <<"x">> >>, << <<" ">> >> >>

----------------------------------------------------------------------------
(* Claims about the job list, checked under SpecJobs *)

\* a name whose last four characters are .png or .jpg
HasImageExtension(n) ==
    /\ Len(n) >= 4
    /\ <<n[Len(n) - 3], n[Len(n) - 2], n[Len(n) - 1], n[Len(n)]>>
          \in {<<".", "p", "n", "g">>, <<".", "j", "p", "g">>}

\* C5: when the image argument is not a file and is listed as a directory,
\* the job list holds exactly its entries named *.png or *.jpg, in listing
\* order, each joined to the directory; every other entry is left out.
C5_DirectoryJobs ==
    (pc = "progress" /\ ~env.isfile) =>
        LET names == env.listing.names
            kept == {i \in 1..Len(names) : HasImageExtension(names[i])}
        IN /\ Len(images) = Cardinality(kept)
           /\ \A i \in kept :
                 images[Cardinality({m \in kept : m <= i})] = Join(args.image, names[i])
           /\ \A i \in (1..Len(names)) \ kept :
                 Join(args.image, names[i]) \notin Range(images)

\* C5 witness: a directory with a kept .jpg entry and an upper-case .PNG
\* entry that is left out.
C5_Witness ==
    /\ pc = "progress"
    /\ ~env.isfile
    /\ env.listing.names = << <<"c", ".", "P", "N", "G">>, <<"b", ".", "j", "p", "g">> >>
    /\ Len(images) = 1

\* C6: when the image argument is an existing file, the job list is that one
\* file, whatever its extension.
C6_SingleFileJob ==
    (pc = "progress" /\ env.isfile) => images = <<args.image>>

\* C6 witness: the single file d/d.txt is the job list.
C6_Witness ==
    /\ pc = "progress"
    /\ env.isfile
    /\ args.image = <<"d", "/", "d", ".", "t", "x", "t">>
    /\ images = <<args.image>>

----------------------------------------------------------------------------
(* Claims about the driver, checked under Spec and FairSpec *)

C7_AbortedState ==
    err # NoErr =>
        /\ pc = "Aborted"
        /\ \A k \in 1..Len(log) : log[k].job <= err.job
        /\ Len(writes) <= err.job
        /\ progress.completed <= err.job
        /\ \A k \in 1..Len(writes) :
              \E j \in 1..err.job :
                 /\ writes[k] = Join(args.output_dir, Basename(images[j]))
                 /\ writes[k] \in Paths(disk)
                 /\ ContentAt(disk, writes[k]) = Annotated(images[j])

\* C7: once processing of the i-th image (or a startup step, i = 0) raises,
\* the run is aborted: no stage of a later image has run or runs, nothing more
\* is written, Done is never reached, and the files that were written for the
\* images up to the i-th are still in place.
C7_FailFast ==
    /\ []C7_AbortedState
    /\ [][err # NoErr => (pc' = "Aborted" /\ err' = err /\ disk' = disk
                           /\ writes' = writes /\ log' = log)]_vars

\* C7 witness: the second image failed after the first was written.
C7_Witness ==
    /\ pc = "Aborted"
    /\ err.job = 2
    /\ Len(writes) >= 1
    /\ Len(images) >= 2

\* C8 as stated: the model is constructed only after the output directory is
\* resolved and the prompts are loaded.
C8_ModelAfterPrompts ==
    runner # "none" => (texts # NotLoaded /\ outdir = "resolved")

\* C8: the runner and its model are constructed before the prompts are loaded
\* and the output directory is resolved; the checkpoint is loaded (the model
\* is ready) only after both; no image is processed before the model is ready.
C8_StartupOrder ==
    /\ (texts # NotLoaded \/ outdir = "resolved") => runner # "none"
    /\ runner = "ready" => (texts # NotLoaded /\ outdir = "resolved")
    /\ (log # <<>> \/ idx > 0 \/ pc \in {"resolve_images", "progress", "loop", "Done"})
          => runner = "ready"

\* C8 witness: an image has been processed with the model ready.
C8_Witness ==
    /\ runner = "ready"
    /\ texts # NotLoaded
    /\ outdir = "resolved"
    /\ \E k \in 1..Len(log) : log[k].stage = "write"

StageOrder == <<"preprocess", "infer", "postprocess", "write", "update">>

C9_InOrder ==
    /\ \A k \in 1..Len(log) :
          /\ log[k].job = ((k - 1) \div Len(StageOrder)) + 1
          /\ log[k].stage = StageOrder[((k - 1) % Len(StageOrder)) + 1]
          /\ log[k].job <= Len(images)
          /\ log[k].path = images[log[k].job]
    /\ pc = "Done" =>
          /\ err = NoErr
          /\ Len(log) = Len(StageOrder) * Len(images)
          /\ progress = [total |-> Len(images), completed |-> Len(images)]

\* C9: the stages run job after job in listing order, all stages of job i
\* before any of job i+1, each job once; a run in which nothing raises ends
\* in Done with every job processed and the progress count equal to the
\* number of jobs.
C9_SequentialJobs ==
    /\ []C9_InOrder
    /\ <>(pc = "Done" \/ err # NoErr)

\* C9 witness: a run over two images reached Done.
C9_Witness ==
    /\ pc = "Done"
    /\ Len(images) >= 2
    /\ progress.completed = Len(images)

\* C10: files of the output directory are only written by the loop; after a
\* run in which nothing raised each job has its annotated image at
\* <output_dir>/<basename(source)>, one file per job, a file that was there
\* before is overwritten, and no other path is written.
C10_OneOutputPerJob ==
    /\ Paths(disk) = env.old \cup Range(writes)
    /\ \A f \in disk : f.path \notin Range(writes) => f.content = OldContent
    /\ pc = "Done" =>
          /\ Len(writes) = Len(images)
          /\ Cardinality(Range(writes)) = Len(images)
          /\ \A j \in 1..Len(images) :
                /\ writes[j] = Join(args.output_dir, Basename(images[j]))
                /\ EndsWith(writes[j], <<"/">> \o Basename(images[j]))
                /\ ContentAt(disk, writes[j]) = Annotated(images[j])

====
